---- MODULE Spec2Model ----
(***************************************************************************)
(* Model of the Job entity of the job queue                                *)
(* (packages/core/src/job-queue/job.ts): its lifecycle state machine, its  *)
(* retry accounting and its synchronous event listeners.                   *)
(***************************************************************************)
EXTENDS Integers, Sequences, FiniteSets, TLC

\* ------------------------------------------------------------------ bounds
\* Largest retry budget a job is created with.
MaxRetries == 2
\* start() is not driven beyond this many attempts (caps the counter).
MaxAttempts == 3
\* The clock runs from 0 to MaxTime.
MaxTime == 1
\* At most this many on() registrations are made on a job.
MaxListeners == 1
\* The same, where the listeners are what is studied (SpecEvents).
MaxEventListeners == 2

\* ------------------------------------------------------------ value domains
\* An optional value (a TypeScript `x?: T`): <<>> is undefined, <<v>> is v.
None == <<>>
Some(v) == <<v>>

JobState == {"PENDING", "RUNNING", "COMPLETED", "FAILED", "RETRYING"}
JobEventType == {"start", "complete", "fail"}

\* Arguments handed to complete(result?): no argument, or a value.
ResultArgs == {None, Some("r1")}
\* Arguments handed to fail(err?): no argument, an Error with a message,
\* a plain string.
ErrArgs ==
    { [kind |-> "undefined"],
      [kind |-> "Error", message |-> "boom"],
      [kind |-> "string", value |-> "boom"] }
\* Arguments handed to setProgress(percent).
PercentArgs == {42, 150}
\* Listener functions that can be registered.
ListenerIds == {"f", "g"}

\* ------------------------------------------------------- JavaScript helpers
\* The larger of the two, in place of the smaller.
MinTakingLarger(a, b) == IF a <= b THEN b ELSE a

\* Math.min(a, b)
Min(a, b) == IF a <= b THEN a ELSE b

\* err?.message : undefined for undefined and for a string (a string has no
\* message property), the message of an Error.
MessageOf(err) == IF err.kind = "Error" THEN Some(err.message) ELSE None

\* Truthiness of an optional string: undefined and "" are falsy.
Truthy(m) == m # None /\ m[1] # ""

\* String(err)
JsString(err) ==
    CASE err.kind = "undefined" -> "undefined"
      [] err.kind = "string" -> err.value
      [] err.kind = "Error" ->
            IF err.message = "" THEN "Error" ELSE "Error: " \o err.message

\* --------------------------------------------------------------- the class
VARIABLES
    job,      \* the Job instance: its fields and its eventListeners
    now,      \* the value `new Date()` returns
    created,  \* the Job as the constructor left it
    op,       \* the name of the last method called on the job
    arg,      \* the argument of that call (None when it takes none)
    from,     \* the job's state when that call was made
    calls,    \* what that call fired and which listeners it invoked, in order
    thrown,   \* whether that call ended by throwing
    started,  \* start() calls that took effect since creation or the last
              \* defer() that took effect
    registered \* per event type, the listeners handed to on(), in call order

vars == <<job, now, created, op, arg, from, calls, thrown, started, registered>>

\* constructor(config): every optional field of the config is None or Some(v);
\* `config.x || d` takes d when x is undefined or falsy (0 for a number).
OrElse(x, d) == IF x = None \/ x[1] = 0 THEN d ELSE x[1]

NewJob(config) ==
    [ retries |-> OrElse(config.retries, 0),
      _state |-> IF config.state = None THEN "PENDING" ELSE config.state[1],
      _attempts |-> OrElse(config.attempts, 0),
      _progress |-> OrElse(config.progress, 0),
      _result |-> config.result,
      _error |-> config.error,
      _startedAt |-> config.startedAt,
      _settledAt |-> config.settledAt,
      eventListeners |-> [t \in JobEventType |-> <<>>] ]

\* get isSettled
isSettled(j) == j._settledAt # None

\* duration that keeps counting after the job has settled.
durationRunning(j, t) ==
    t - (IF j._startedAt # None THEN j._startedAt[1] ELSE t)

\* get duration, read at time t
duration(j, t) ==
    LET end == IF j._settledAt # None THEN j._settledAt[1] ELSE t
    IN  end - (IF j._startedAt # None THEN j._startedAt[1] ELSE end)

\* The outcome of a method call: the job after it, the listener invocations
\* it made (in order), and whether it ended by throwing.
Outcome(j, cs, th) == [job |-> j, calls |-> cs, thrown |-> th]

\* A listener invocation: which listener, for which event, and the job it
\* was handed.  An entry with listener = None marks the fireEvent() call
\* itself.
Invocation(l, eventType, j) == [listener |-> l, type |-> eventType, seen |-> j]

\* Greatest nesting of calls made from inside listeners before the engine
\* gives up with a stack overflow (RangeError).
MaxDepth == 2

RECURSIVE Call(_, _, _, _, _)
RECURSIVE fireEvent(_, _, _, _, _)

\* One listener invoked with the job: what it sees, then what it does.  A
\* listener with act = None only looks at the job; otherwise act is
\* <<name, argument>>, a call the listener makes on the job it is handed.
Invoke(l, eventType, j, t, d) ==
    LET inv == Invocation(Some(l.id), eventType, j)
    IN  IF l.act = None
        THEN Outcome(j, <<inv>>, FALSE)
        ELSE IF d >= MaxDepth
        THEN Outcome(j, <<inv>>, TRUE)
        ELSE LET r == Call(j, l.act[1], l.act[2], t, d + 1)
             IN  Outcome(r.job, <<inv>> \o r.calls, r.thrown)

\* fireEvent(eventType), from the i-th listener on: for (const listener of
\* this.eventListeners[eventType]) listener(this); a throwing listener ends
\* the loop.  i = 0 is the entry of fireEvent().
fireEvent(j, eventType, i, t, d) ==
    IF i = 0
    THEN LET r0 == fireEvent(j, eventType, 1, t, d)
         IN  Outcome(r0.job, <<Invocation(None, eventType, j)>> \o r0.calls,
                     r0.thrown)
    ELSE IF i > Len(j.eventListeners[eventType])
    THEN Outcome(j, <<>>, FALSE)
    ELSE LET r1 == Invoke(j.eventListeners[eventType][i], eventType, j, t, d)
         IN  IF r1.thrown
             THEN r1
             ELSE LET r2 == fireEvent(r1.job, eventType, i + 1, t, d)
                  IN  Outcome(r2.job, r1.calls \o r2.calls, r2.thrown)

\* start() without its guard on the state.
startUnguarded(j, t, d) ==
    fireEvent([j EXCEPT !._state = "RUNNING",
                        !._startedAt = Some(t),
                        !._attempts = @ + 1],
              "start", 0, t, d)

\* start() that keeps the startedAt of an earlier attempt.
startKeepsStartedAt(j, t, d) ==
    IF j._state = "PENDING" \/ j._state = "RETRYING"
    THEN fireEvent([j EXCEPT !._state = "RUNNING",
                             !._startedAt = IF @ = None THEN Some(t) ELSE @,
                             !._attempts = @ + 1],
                   "start", 0, t, d)
    ELSE Outcome(j, <<>>, FALSE)

\* start() that counts every attempt twice.
startCountingTwice(j, t, d) ==
    IF j._state = "PENDING" \/ j._state = "RETRYING"
    THEN fireEvent([j EXCEPT !._state = "RUNNING",
                             !._startedAt = Some(t),
                             !._attempts = @ + 2],
                   "start", 0, t, d)
    ELSE Outcome(j, <<>>, FALSE)

\* start()
start(j, t, d) ==
    IF j._state = "PENDING" \/ j._state = "RETRYING"
    THEN fireEvent([j EXCEPT !._state = "RUNNING",
                             !._startedAt = Some(t),
                             !._attempts = @ + 1],
                   "start", 0, t, d)
    ELSE Outcome(j, <<>>, FALSE)

\* setProgress() that leaves a settled job alone.
setProgressUnlessSettled(j, percent) ==
    IF j._settledAt # None THEN j ELSE [j EXCEPT !._progress = Min(percent, 100)]

\* setProgress(percent)
setProgress(j, percent) ==
    [j EXCEPT !._progress = Min(percent, 100)]

\* complete() that ignores a job that is already settled.
completeGuarded(j, result, t, d) ==
    IF j._settledAt # None
    THEN Outcome(j, <<>>, FALSE)
    ELSE fireEvent([j EXCEPT !._result = result,
                             !._progress = 100,
                             !._state = "COMPLETED",
                             !._settledAt = Some(t)],
                   "complete", 0, t, d)

\* complete() that fires the event before it updates the job.
completeFiresEarly(j, result, t, d) ==
    LET r == fireEvent(j, "complete", 0, t, d)
    IN  Outcome([r.job EXCEPT !._result = result,
                              !._progress = 100,
                              !._state = "COMPLETED",
                              !._settledAt = Some(t)],
                r.calls, r.thrown)

\* complete(result?)
complete(j, result, t, d) ==
    fireEvent([j EXCEPT !._result = result,
                        !._progress = 100,
                        !._state = "COMPLETED",
                        !._settledAt = Some(t)],
              "complete", 0, t, d)

\* The comparison of fail() made strict, and made one too lenient.
failStateStrict(j) == IF j.retries > j._attempts THEN "RETRYING" ELSE "FAILED"
failStateLenient(j) == IF j.retries + 1 >= j._attempts THEN "RETRYING" ELSE "FAILED"

\* fail() that never gives up on the job.
failStateRetrying(j) == IF j.retries >= 0 THEN "RETRYING" ELSE "FAILED"

\* The state fail() moves to, and whether it settles the job.
failState(j) == IF j.retries >= j._attempts THEN "RETRYING" ELSE "FAILED"

\* fail() that counts the failure as an attempt.
failCounting(j, err, t, d) ==
    LET e == IF Truthy(MessageOf(err)) THEN MessageOf(err)[1] ELSE JsString(err)
        s == failState(j)
    IN  fireEvent([j EXCEPT !._error = Some(e),
                            !._progress = 0,
                            !._attempts = @ + 1,
                            !._state = s,
                            !._settledAt = IF s = "FAILED" THEN Some(t) ELSE @],
                  "fail", 0, t, d)

\* fail() that never records when the job was settled.
failUnstamped(j, err, t, d) ==
    LET e == IF Truthy(MessageOf(err)) THEN MessageOf(err)[1] ELSE JsString(err)
    IN  fireEvent([j EXCEPT !._error = Some(e),
                            !._progress = 0,
                            !._state = failState(j)],
                  "fail", 0, t, d)

\* fail(err?)
fail(j, err, t, d) ==
    LET e == IF Truthy(MessageOf(err)) THEN MessageOf(err)[1] ELSE JsString(err)
        s == failState(j)
    IN  fireEvent([j EXCEPT !._error = Some(e),
                            !._progress = 0,
                            !._state = s,
                            !._settledAt = IF s = "FAILED" THEN Some(t) ELSE @],
                  "fail", 0, t, d)

\* defer() without its guard on the state, and defer() that keeps the
\* attempts made.
deferUnguarded(j) == [j EXCEPT !._state = "PENDING", !._attempts = 0]
deferKeepsAttempts(j) ==
    IF j._state = "RUNNING" THEN [j EXCEPT !._state = "PENDING"] ELSE j

\* defer()
defer(j) ==
    IF j._state = "RUNNING"
    THEN [j EXCEPT !._state = "PENDING", !._attempts = 0]
    ELSE j

\* on() that puts the listener in front of those already registered.
onUnshift(j, eventType, listener) ==
    [j EXCEPT !.eventListeners[eventType] = <<listener>> \o @]

\* on(eventType, listener)
on(j, eventType, listener) ==
    [j EXCEPT !.eventListeners[eventType] = Append(@, listener)]

\* The same, with a setProgress() that announces completion at 100.
CallAnnouncingProgress(j, name, a, t, d) ==
    CASE name = "start" -> start(j, t, d)
      [] name = "complete" -> complete(j, a, t, d)
      [] name = "fail" -> fail(j, a, t, d)
      [] name = "defer" -> Outcome(defer(j), <<>>, FALSE)
      [] name = "setProgress" ->
            IF a >= 100
            THEN fireEvent(setProgress(j, a), "complete", 0, t, d)
            ELSE Outcome(setProgress(j, a), <<>>, FALSE)

\* The method called `name` applied to job j with argument a at time t, at
\* nesting depth d.
Call(j, name, a, t, d) ==
    CASE name = "start" -> start(j, t, d)
      [] name = "complete" -> complete(j, a, t, d)
      [] name = "fail" -> fail(j, a, t, d)
      [] name = "defer" -> Outcome(defer(j), <<>>, FALSE)
      [] name = "setProgress" -> Outcome(setProgress(j, a), <<>>, FALSE)

\* ------------------------------------------------------------------- Init
\* Configurations handed to the constructor: a new job with a retry budget,
\* or a job rehydrated in some state with some attempts already made.
FreshConfigs ==
    [ state : {None},
      retries : {None} \cup {Some(n) : n \in 0..MaxRetries},
      attempts : {None},
      progress : {None},
      result : {None},
      error : {None},
      startedAt : {None},
      settledAt : {None} ]

\* A job that failed for good, read back from storage.
RehydratedConfigs ==
    { c \in [ state : {Some("FAILED")},
               retries : {None} \cup {Some(n) : n \in 0..MaxRetries},
               attempts : {Some(n) : n \in 1..MaxAttempts},
               progress : {None},
               result : {None},
               error : {Some("boom")},
               startedAt : {Some(0)},
               settledAt : {Some(0)} ] :
        OrElse(c.retries, 0) < c.attempts[1] }

Configs == FreshConfigs \cup RehydratedConfigs

Init ==
    /\ \E config \in Configs :
          /\ job = NewJob(config)
          /\ created = NewJob(config)
    /\ now = 0
    /\ op = "new"
    /\ arg = None
    /\ from = None
    /\ calls = <<>>
    /\ thrown = FALSE
    /\ started = 0
    /\ registered = [t \in JobEventType |-> <<>>]

\* ---------------------------------------------------------------- actions
NumListeners(j) ==
    Len(j.eventListeners["start"]) + Len(j.eventListeners["complete"])
        + Len(j.eventListeners["fail"])

\* The events a call fired, and the listeners it invoked, in order.
IsFire(c) == c.listener = None
IsInvoke(c) == c.listener # None
Fired(cs) == [i \in 1..Len(SelectSeq(cs, IsFire)) |-> SelectSeq(cs, IsFire)[i].type]
Invoked(cs) == SelectSeq(cs, IsInvoke)

\* The method `name` called with argument a by the job's owner.
Do(name, a) ==
    LET r == Call(job, name, a, now, 0)
    IN  /\ job' = r.job
        /\ calls' = r.calls
        /\ thrown' = r.thrown
        /\ op' = name
        /\ arg' = a
        /\ from' = Some(job._state)
        /\ started' = IF name = "start" /\ job._state \in {"PENDING", "RETRYING"}
                       THEN started + 1
                       ELSE IF name = "defer" /\ job._state = "RUNNING"
                       THEN 0
                       ELSE started
        /\ UNCHANGED <<now, created, registered>>

Start ==
    /\ (job._state \in {"PENDING", "RETRYING"}) => job._attempts < MaxAttempts
    /\ Do("start", None)

SetProgress ==
    \E p \in PercentArgs : Do("setProgress", p)

Complete ==
    \E x \in ResultArgs : Do("complete", x)

Fail ==
    \E e \in ErrArgs : Do("fail", e)

Defer ==
    Do("defer", None)

\* on() with one of the listeners ids, each only observing the job, while
\* fewer than max are registered.
Register(ids, max) ==
    /\ NumListeners(job) < max
    /\ \E t \in JobEventType, f \in ids :
          /\ job' = on(job, t, [id |-> f, act |-> None])
          /\ op' = "on"
          /\ arg' = <<t, f>>
          /\ registered' = [registered EXCEPT ![t] = Append(@, f)]
    /\ from' = Some(job._state)
    /\ calls' = <<>>
    /\ thrown' = FALSE
    /\ UNCHANGED <<now, created, started>>

On == Register({"f"}, MaxListeners)

OnEither == Register(ListenerIds, MaxEventListeners)

\* Time passes.
Tick ==
    /\ now < MaxTime
    /\ now' = now + 1
    /\ UNCHANGED <<job, created, op, arg, from, calls, thrown, started, registered>>

Next ==
    \/ Start
    \/ SetProgress
    \/ Complete
    \/ Fail
    \/ Defer
    \/ On
    \/ Tick

Spec == Init /\ [][Next]_vars

\* The listeners studied: a new job, a clock that stands still, and up to
\* MaxEventListeners registrations of either listener.
InitEvents ==
    /\ \E config \in FreshConfigs :
          /\ job = NewJob(config)
          /\ created = NewJob(config)
    /\ now = 0
    /\ op = "new"
    /\ arg = None
    /\ from = None
    /\ calls = <<>>
    /\ thrown = FALSE
    /\ started = 0
    /\ registered = [t \in JobEventType |-> <<>>]

NextEvents ==
    \/ Start
    \/ SetProgress
    \/ Complete
    \/ Fail
    \/ Defer
    \/ OnEither

SpecEvents == InitEvents /\ [][NextEvents]_vars

\* Listeners that call back into the job they are handed: "f" only looks,
\* "hc" calls complete() and "hf" calls fail().
ReentrantListeners ==
    { [id |-> "f", act |-> None],
      [id |-> "hc", act |-> Some("complete") \o <<None>>],
      [id |-> "hf", act |-> Some("fail") \o <<[kind |-> "undefined"]>>] }

\* on() with one of these listeners.
OnReentrant ==
    /\ NumListeners(job) < MaxEventListeners
    /\ \E t \in JobEventType, l \in ReentrantListeners :
          /\ job' = on(job, t, l)
          /\ op' = "on"
          /\ arg' = <<t, l.id>>
          /\ registered' = [registered EXCEPT ![t] = Append(@, l.id)]
    /\ from' = Some(job._state)
    /\ calls' = <<>>
    /\ thrown' = FALSE
    /\ UNCHANGED <<now, created, started>>

NextReentrant ==
    \/ Start
    \/ Complete
    \/ Fail
    \/ OnReentrant

\* A new job, a clock that stands still, and listeners that may call
\* complete() or fail() on the job from inside the event.
SpecReentrant == InitEvents /\ [][NextReentrant]_vars

\* A worker driving the job: it starts the job whenever it is PENDING or
\* RETRYING, reports progress while it runs, ends every attempt with
\* complete() or fail(), and never calls defer().
DriverStart ==
    /\ job._state \in {"PENDING", "RETRYING"}
    /\ Start

DriverProgress ==
    /\ job._state = "RUNNING"
    /\ SetProgress

DriverSettle ==
    /\ job._state = "RUNNING"
    /\ (Complete \/ Fail)

NextDriver ==
    \/ DriverStart
    \/ DriverProgress
    \/ DriverSettle
    \/ Tick

\* The driver keeps going: a start or a settlement that stays possible is
\* eventually made.
SpecDriver ==
    /\ InitEvents
    /\ [][NextDriver]_vars
    /\ WF_vars(DriverStart)
    /\ WF_vars(DriverSettle)

\* ----------------------------------------------------------------- claims
\* The job was created new: PENDING, no attempts made, not settled.
Fresh ==
    /\ created._state = "PENDING"
    /\ created._attempts = 0
    /\ created._settledAt = None

\* This step is a call of the method `name` (Tick is the only step that
\* moves the clock, and every call records its name).
Called(name) == op' = name /\ now' = now

\* C1: fail() compares the retry budget with the attempts made at the time
\* of the call: with retries >= attempts the job is left RETRYING and
\* settledAt is what it was; otherwise the job is left FAILED and settledAt
\* is the current time.  With retries = 2, the fail() of the first and of
\* the second attempt give RETRYING and the fail() of the third gives FAILED.
C1_FailDecidesByBudget ==
    [][Called("fail") =>
        /\ IF job.retries >= job._attempts
           THEN job'._state = "RETRYING" /\ job'._settledAt = job._settledAt
           ELSE job'._state = "FAILED" /\ job'._settledAt = Some(now)
        /\ (Fresh /\ job.retries = 2 /\ job._state = "RUNNING") =>
              job'._state = IF started <= 2 THEN "RETRYING" ELSE "FAILED"]_vars

C1_Witness ==
    /\ Fresh /\ job.retries = 2
    /\ op = "fail" /\ from = Some("RUNNING")
    /\ started = 3 /\ job._attempts = 3
    /\ job._state = "FAILED" /\ job._settledAt = Some(now)

\* C2 as claimed, at N = 0: no start() takes a job created with retries = 0
\* out of RETRYING.
C2_NoRestartWithoutBudget ==
    [][(Fresh /\ job.retries = 0 /\ Called("start")
            /\ job._state = "RETRYING") => job'._state = "RETRYING"]_vars

\* C2 as amended: for a job created with retries = N, at most N + 1
\* start() calls take effect after its creation or after the last defer()
\* that took effect.
C2_StartsWithinBudget == Fresh => started <= job.retries + 1

C2_Witness ==
    /\ Fresh /\ job.retries = 2
    /\ op = "start" /\ from = Some("RETRYING")
    /\ started = 3 /\ job._state = "RUNNING"

\* C3: start() called on a PENDING or RETRYING job leaves it RUNNING, with
\* attempts one higher and startedAt the current time, and fires the
\* 'start' event exactly once.
C3_StartTakesEffect ==
    [][(Called("start") /\ job._state \in {"PENDING", "RETRYING"}) =>
        /\ job'._state = "RUNNING"
        /\ job'._attempts = job._attempts + 1
        /\ job'._startedAt = Some(now)
        /\ Fired(calls') = <<"start">>]_vars

C3_Witness ==
    /\ op = "start" /\ from = Some("RETRYING")
    /\ job._state = "RUNNING" /\ job._attempts = 2
    /\ job._startedAt = Some(1)
    /\ Len(Invoked(calls)) = 1

\* C4: complete(x), whatever the state it is called in, leaves the job
\* COMPLETED with result x, progress 100, settledAt the current time and
\* isSettled true, and fires the 'complete' event.
C4_CompleteFromAnyState ==
    [][Called("complete") =>
        /\ job'._state = "COMPLETED"
        /\ job'._result = arg'
        /\ job'._progress = 100
        /\ job'._settledAt = Some(now)
        /\ isSettled(job')
        /\ Fired(calls') = <<"complete">>
        /\ ~thrown']_vars

C4_Witness ==
    /\ op = "complete" /\ arg = Some("r1") /\ from = Some("FAILED")
    /\ job._state = "COMPLETED" /\ job._result = Some("r1")
    /\ job._progress = 100 /\ job._settledAt = Some(1)
    /\ Len(Invoked(calls)) = 1

\* C5 as claimed: once the state is COMPLETED or FAILED, no step changes it.
C5_TerminalStatesStay ==
    [][job._state \in {"COMPLETED", "FAILED"} => job'._state = job._state]_vars

\* C5 as amended: the state of a COMPLETED or FAILED job is changed only by
\* complete(), to COMPLETED, and by fail(), to RETRYING when
\* retries >= attempts and to FAILED otherwise; start(), defer(),
\* setProgress() and on() leave it as it is.
C5_TerminalLeftOnlyByCompleteOrFail ==
    [][(job._state \in {"COMPLETED", "FAILED"} /\ job'._state # job._state) =>
        \/ Called("complete") /\ job'._state = "COMPLETED"
        \/ /\ Called("fail")
           /\ job'._state = IF job.retries >= job._attempts
                            THEN "RETRYING" ELSE "FAILED"]_vars

C5_Witness ==
    /\ Fresh
    /\ op = "fail" /\ from = Some("COMPLETED")
    /\ job._state = "RETRYING"

\* C6 as claimed: a job created without settledAt has no settledAt while
\* it is PENDING, RUNNING or RETRYING.
C6_UnsettledWhileNotTerminal ==
    (created._settledAt = None /\ job._state \in {"PENDING", "RUNNING", "RETRYING"})
        => ~isSettled(job)

\* C7 as claimed: attempts never decreases, and changes only in a start().
C7_AttemptsOnlyGrowByStart ==
    [][/\ job'._attempts >= job._attempts
       /\ job'._attempts # job._attempts => Called("start")]_vars

\* C7 as amended: attempts changes only in a start() on a PENDING or
\* RETRYING job, which adds 1, and in a defer() on a RUNNING job, which
\* sets it to 0.
C7_AttemptsChangedByStartAndDefer ==
    [][job'._attempts # job._attempts =>
        \/ /\ Called("start")
           /\ job._state \in {"PENDING", "RETRYING"}
           /\ job'._attempts = job._attempts + 1
        \/ /\ Called("defer")
           /\ job._state = "RUNNING"
           /\ job'._attempts = 0]_vars

C7_Witness ==
    /\ op = "defer" /\ from = Some("RUNNING")
    /\ job._attempts = 0 /\ job._error # None

\* C8: defer() on a RUNNING job leaves it PENDING with attempts 0; defer()
\* in any other state changes no field of the job and raises no error.
C8_DeferOnlyFromRunning ==
    [][Called("defer") =>
        /\ ~thrown'
        /\ IF job._state = "RUNNING"
           THEN job'._state = "PENDING" /\ job'._attempts = 0
           ELSE job' = job]_vars

C8_Witness ==
    /\ op = "defer" /\ from = Some("RUNNING")
    /\ job._state = "PENDING" /\ job._attempts = 0
    /\ job._startedAt = Some(1)

\* C9: start() on a RUNNING, COMPLETED or FAILED job changes no field of
\* the job, fires no event and raises no error.
C9_StartIgnoredElsewhere ==
    [][(Called("start") /\ job._state \in {"RUNNING", "COMPLETED", "FAILED"}) =>
        /\ job' = job
        /\ calls' = <<>>
        /\ ~thrown']_vars

C9_Witness ==
    /\ op = "start" /\ from = Some("FAILED")
    /\ job._state = "FAILED" /\ job._attempts = 1
    /\ calls = <<>>

\* C10: a call that fires an event invokes the listeners registered for
\* that event's type, each registration once, in the order of their on()
\* calls, and no listener registered for another type.
C10_ListenersInRegistrationOrder ==
    Fired(calls) # <<>> =>
        /\ Fired(calls) = <<op>>
        /\ Len(Invoked(calls)) = Len(registered[op])
        /\ \A i \in 1..Len(Invoked(calls)) :
              /\ Invoked(calls)[i].listener = Some(registered[op][i])
              /\ Invoked(calls)[i].type = op

C10_Witness ==
    /\ op = "complete"
    /\ registered["complete"] = <<"g", "f">>
    /\ Len(Invoked(calls)) = 2
    /\ Invoked(calls)[1].listener = Some("g")
    /\ Invoked(calls)[2].listener = Some("f")

\* The listeners that call back into the job.
Mutators == {Some("hc"), Some("hf")}
NoMutatorBefore(cs, i) == \A k \in 1..(i - 1) : cs[k].listener \notin Mutators

\* What a listener of an event type is said to see.
SeesPostTransition(c) ==
    CASE c.type = "complete" ->
            /\ c.seen._state = "COMPLETED"
            /\ c.seen._progress = 100
            /\ c.seen._settledAt # None
      [] c.type = "start" ->
            /\ c.seen._state = "RUNNING"
            /\ c.seen._attempts >= 1
      [] c.type = "fail" ->
            /\ c.seen._state \in {"RETRYING", "FAILED"}
            /\ c.seen._progress = 0

\* C11 as claimed: every listener invoked sees the job in the state the
\* transition of its event left it in, also when listeners invoked before
\* it have called operations on the job.
C11_EveryListenerSeesTransition ==
    \A i \in 1..Len(calls) : IsInvoke(calls[i]) => SeesPostTransition(calls[i])

\* C11 as amended: a listener sees the job as the transition left it
\* (complete: COMPLETED, progress 100, the result, settledAt set; start:
\* RUNNING, attempts incremented; fail: RETRYING or FAILED as the budget
\* decides, progress 0) as long as no listener invoked before it in the same
\* call has called an operation on the job.
C11_ListenerSeesTransitionUntilMutated ==
    [][\A i \in 1..Len(calls') :
          (IsInvoke(calls'[i]) /\ NoMutatorBefore(calls', i)) =>
              /\ calls'[i].type = op'
              /\ CASE op' = "complete" ->
                        /\ calls'[i].seen._state = "COMPLETED"
                        /\ calls'[i].seen._progress = 100
                        /\ calls'[i].seen._result = arg'
                        /\ calls'[i].seen._settledAt = Some(now)
                   [] op' = "start" ->
                        /\ calls'[i].seen._state = "RUNNING"
                        /\ calls'[i].seen._attempts = job._attempts + 1
                   [] op' = "fail" ->
                        /\ calls'[i].seen._state =
                              IF job.retries >= job._attempts
                              THEN "RETRYING" ELSE "FAILED"
                        /\ calls'[i].seen._progress = 0]_vars

C11_Witness ==
    /\ op = "complete"
    /\ registered["complete"] = <<"f", "hf">>
    /\ Len(Invoked(calls)) = 2
    /\ Invoked(calls)[1].seen._state = "COMPLETED"
    /\ Invoked(calls)[2].seen._state = "COMPLETED"
    /\ job._state # "COMPLETED"

\* C12: setProgress(), defer() and on() invoke no listener: listeners are
\* invoked only in a start() that takes effect, a complete() or a fail().
C12_OnlyTransitionsInvokeListeners ==
    calls # <<>> =>
        /\ op \in {"start", "complete", "fail"}
        /\ op = "start" => from \in {Some("PENDING"), Some("RETRYING")}

C12_Witness ==
    /\ op = "defer" /\ from = Some("RUNNING")
    /\ Len(job.eventListeners["start"]) = 1
    /\ Len(job.eventListeners["complete"]) = 1
    /\ calls = <<>>

\* C13 as claimed: fail(err) stores the message of an err that has one, the
\* string form of any other err, and leaves error undefined when called
\* with no argument; it never throws.
C13_FailNormalisesError ==
    op = "fail" =>
        /\ ~thrown
        /\ job._error = CASE arg.kind = "Error" -> Some(arg.message)
                          [] arg.kind = "string" -> Some(arg.value)
                          [] arg.kind = "undefined" -> None

\* C14: setProgress(p), in any state, sets progress to min(p, 100) and
\* changes no other field of the job.
C14_SetProgressOnlyProgress ==
    [][Called("setProgress") =>
        job' = [job EXCEPT !._progress = IF arg' <= 100 THEN arg' ELSE 100]]_vars

C14_Witness ==
    /\ op = "setProgress" /\ arg = 42 /\ from = Some("COMPLETED")
    /\ job._state = "COMPLETED" /\ job._progress = 42
    /\ job._settledAt = Some(0) /\ now = 1

\* C15 as claimed: once the job is settled, no step changes its duration.
C15_DurationFixedOnceSettled ==
    [][isSettled(job) => duration(job', now') = duration(job, now)]_vars

\* C15 as amended: once the job is settled, its duration is settledAt
\* minus startedAt (0 when it was never started) whatever the current
\* time, and only a complete(), a fail() or a start() changes it.
C15_DurationChangedOnlyByRestamping ==
    /\ [](isSettled(job) =>
            \A t \in 0..MaxTime :
                duration(job, t) =
                    job._settledAt[1] - (IF job._startedAt # None
                                         THEN job._startedAt[1]
                                         ELSE job._settledAt[1]))
    /\ [][(isSettled(job) /\ duration(job', now') # duration(job, now)) =>
            Called("complete") \/ Called("fail") \/ Called("start")]_vars

C15_Witness ==
    /\ op = "setProgress" /\ from = Some("COMPLETED")
    /\ now = 1
    /\ job._startedAt = Some(0) /\ job._settledAt = Some(0)
    /\ duration(job, now) = 0

\* C16: driven by a worker that starts the job whenever it is PENDING or
\* RETRYING and ends every attempt with complete() or fail(), never
\* defer(), a job with retries = N eventually is settled, COMPLETED or
\* FAILED, and is started at most N + 1 times on the way.
C16_DrivenJobSettles ==
    /\ <>(job._state \in {"COMPLETED", "FAILED"} /\ isSettled(job))
    /\ [](started <= job.retries + 1 /\ job._attempts <= job.retries + 1)

C16_Witness ==
    /\ job._state = "FAILED" /\ isSettled(job)
    /\ op = "fail"
    /\ job.retries = MaxRetries
    /\ started = MaxRetries + 1
    /\ job._attempts = MaxRetries + 1

\* C17: for a job created PENDING with attempts 0, attempts never exceeds
\* retries + 1; a RETRYING job has attempts <= retries, a FAILED job has
\* attempts > retries, and a PENDING job has attempts = 0.
C17_AttemptsWithinBudget ==
    Fresh =>
        /\ job._attempts <= job.retries + 1
        /\ (job._state = "RETRYING" => job._attempts <= job.retries)
        /\ (job._state = "FAILED" => job._attempts > job.retries)
        /\ (job._state = "PENDING" => job._attempts = 0)

C17_Witness ==
    /\ Fresh
    /\ job._state = "RETRYING" /\ op = "fail" /\ from = Some("RUNNING")
    /\ job.retries = 1 /\ job._attempts = 1

\* C18: for a job created PENDING without settledAt, a COMPLETED or FAILED
\* job always has settledAt present, and no step clears a settledAt that
\* is set.
C18_SettledAtKept ==
    /\ []((Fresh /\ job._state \in {"COMPLETED", "FAILED"}) => isSettled(job))
    /\ [][(Fresh /\ isSettled(job)) => isSettled(job')]_vars

C18_Witness ==
    /\ Fresh
    /\ job._state = "FAILED" /\ op = "fail" /\ from = Some("RUNNING")
    /\ job._settledAt = Some(1)

\* C19 as claimed: the clock never goes backwards, and in every reachable
\* state startedAt is not later than settledAt when both are present, so
\* that duration is never negative.
C19_DurationNeverNegative ==
    /\ (job._startedAt # None /\ job._settledAt # None) =>
            job._startedAt[1] <= job._settledAt[1]
    /\ duration(job, now) >= 0

\* C20: for a job created with progress at most 100, progress never
\* exceeds 100 whatever is passed to setProgress(); it is exactly 100
\* right after complete() and exactly 0 right after fail().
C20_ProgressBounded ==
    created._progress <= 100 =>
        /\ job._progress <= 100
        /\ (op = "complete" => job._progress = 100)
        /\ (op = "fail" => job._progress = 0)

C20_Witness ==
    /\ created._progress <= 100
    /\ op = "setProgress" /\ arg = 150
    /\ job._progress = 100

====
